---------------------------- MODULE Spec2Model ----------------------------
(***************************************************************************)
(* A model of cadquery/occ_impl/sketch_solver.py: the residual ("cost")    *)
(* functions of the eight sketch constraint kinds, and the                 *)
(* SketchConstraintSolver that assembles them into an objective, a         *)
(* finite-difference gradient and bound vectors and hands them to nlopt.   *)
(*                                                                         *)
(* Numbers.  DOF values, constraint values and angles (radians) are        *)
(* integers.  A real result that is not an integer is kept in an exact     *)
(* normal form (see Res below), so that equality of two model values is    *)
(* equality of the two reals they denote wherever a formula relies on it.  *)
(* Python indices are 0-based; sequences here are 1-based, so x[i] of the  *)
(* source is x[i+1] here, and the index map ixs keeps the source's 0-based *)
(* offsets.                                                                *)
(***************************************************************************)
EXTENDS Integers, Sequences, FiniteSets, Bags, TLC

VARIABLES
    entities,      \* self.entities : sequence of DOF vectors
    constraints,   \* self.constraints
    geoms,         \* self.geoms : one tag per entity
    ne, nc,        \* self.ne, self.nc
    ixs,           \* self.ixs : 0-based offsets, one per entity plus a sentinel
    pc,            \* where a solve() call stands: idle | running | returned | raised
    x0,            \* solve: the initial flat vector handed to the optimizer
    lb, ub,        \* solve: the bound vectors _cost() built
    xv,            \* the flat vector of the last func(x, g) call, as func left it
    gv,            \* the optimizer's gradient buffer, as func left it
    fval,          \* what the last func call returned
    nstarts,       \* optimizer runs started by the current solve() call
    nevals,        \* func evaluations of the current optimizer run
    result,        \* what solve() returned: <<>> or <<[slices, status]>>
    failure,       \* the exception solve() ended with: <<>> or <<exception name>>
    call,          \* a direct call of one residual function: its arguments
    ret            \* that call's outcome: <<>> before, <<Res>> after

vars == <<entities, constraints, geoms, ne, nc, ixs, pc, x0, lb, ub, xv, gv,
          fval, nstarts, nevals, result, failure, call, ret>>

solverFields == <<entities, constraints, geoms, ne, nc, ixs>>
solveVars == <<pc, x0, lb, ub, xv, gv, fval, nstarts, nevals, result, failure>>

-----------------------------------------------------------------------------
(* Bounds of the model. *)

\* DOF components, constraint values and angles of the direct residual
\* calls range over 0..MaxNum.
MaxNum == 1
\* Entities of a solver.
MaxEnt == 2
\* Constraints of a solver.
MaxCons == 2
\* func evaluations the optimizer makes in one run.
MaxEvals == 1
\* How far from the start the optimizer's points lie.
MaxStep == 1

Num == 0..MaxNum

-----------------------------------------------------------------------------
(* Python's None and optional values: <<>> is None, <<v>> is the value v. *)

None == <<>>
Some(v) == <<v>>
IsNone(o) == o = <<>>
Get(o) == o[1]

Abs(a) == IF a < 0 THEN -a ELSE a
\* numpy.sign
sign(a) == IF a < 0 THEN -1 ELSE IF a > 0 THEN 1 ELSE 0

RECURSIVE SumSeq(_)
SumSeq(s) == IF s = <<>> THEN 0 ELSE s[1] + SumSeq(Tail(s))

Isqrt(n) == CHOOSE s \in 0..n : s * s <= n /\ (s + 1) * (s + 1) > n
IsSquare(n) == Isqrt(n) * Isqrt(n) = n

-----------------------------------------------------------------------------
(* Geometry tags and the constraint catalog. *)

\* Geoms is imported from .shapes; the residual functions compare the tag
\* with "LINE" and "CIRCLE" and have an else branch for every other tag
\* (ELLIPSE, BSPLINE, ...), which OTHER stands for.
Geoms == {"LINE", "CIRCLE", "OTHER"}

ConstraintKind ==
    {"Fixed", "Coincident", "Angle", "Length", "Distance", "Radius",
     "Orientation", "ArcAngle"}

\* (arity, geometry types); the param type column is not modelled
ConstraintInvariants(kind) ==
    CASE kind = "Fixed"       -> [arity |-> 1, types |-> {"CIRCLE", "LINE"}]
      [] kind = "Coincident"  -> [arity |-> 2, types |-> {"CIRCLE", "LINE"}]
      [] kind = "Angle"       -> [arity |-> 2, types |-> {"CIRCLE", "LINE"}]
      [] kind = "Length"      -> [arity |-> 1, types |-> {"CIRCLE", "LINE"}]
      [] kind = "Distance"    -> [arity |-> 2, types |-> {"CIRCLE", "LINE"}]
      [] kind = "Radius"      -> [arity |-> 1, types |-> {"CIRCLE"}]
      [] kind = "Orientation" -> [arity |-> 1, types |-> {"LINE"}]
      [] kind = "ArcAngle"    -> [arity |-> 1, types |-> {"CIRCLE"}]

-----------------------------------------------------------------------------
(***************************************************************************)
(* Results of a residual function.  A Res is a record                      *)
(*   [fn, n, pts, off, at]                                                 *)
(* fn = "num"   : the integer n                                            *)
(* fn = "sqrt"  : sqrt(n) - off, n not a perfect square                    *)
(* fn = "dist"  : |pts[1] - pts[2]| - off, one of the points on an arc     *)
(* fn = "angle" : pts[1].Angle(pts[2]) - off, gp_Vec2d's signed angle      *)
(* fn = "pert"  : the residual at a point off the integer grid, kept as    *)
(*                the application at[1] = [kind, args, val] itself         *)
(* fn = "ValueError", "TypeError" : the call raised                        *)
(*                                                                         *)
(* A point or vector is a 4-tuple <<a, b, r, t>>: as a point it is         *)
(* (a + r sin t, b + r cos t); as a direction it is (a, b) when r = 0 and  *)
(* (r cos t, -r sin t) otherwise.                                          *)
(***************************************************************************)

Res(fn, n, pts, off, at) == [fn |-> fn, n |-> n, pts |-> pts, off |-> off, at |-> at]

NumRes(n) == Res("num", n, <<>>, 0, <<>>)

\* raise invalid_args(...)
invalid_args == Res("ValueError", 0, <<>>, 0, <<>>)
\* what Python raises for None in arithmetic, or for a wrong argument count
TypeError == Res("TypeError", 0, <<>>, 0, <<>>)

Raised(r) == r.fn \in {"ValueError", "TypeError"}

\* sqrt(n) - off
SqrtMinus(n, off) ==
    IF IsSquare(n) THEN NumRes(Isqrt(n) - off) ELSE Res("sqrt", n, <<>>, off, <<>>)

\* the point (a, b)
Pt(a, b) == <<a, b, 0, 0>>
\* the point (a + r sin t, b + r cos t); sin 0 = 0 and cos 0 = 1
ArcPt(a, b, r, t) == IF r = 0 \/ t = 0 THEN <<a, b + r, 0, 0>> ELSE <<a, b, r, t>>

\* numpy.linalg.norm(v1 - v2) - off for two points
NormDiff(v1, v2, off) ==
    IF v1 = v2 THEN NumRes(0 - off)
    ELSE IF v1[3] = 0 /\ v2[3] = 0
         THEN SqrtMinus((v1[1] - v2[1]) * (v1[1] - v2[1])
                        + (v1[2] - v2[2]) * (v1[2] - v2[2]), off)
         ELSE Res("dist", 0, <<v1, v2>>, off, <<>>)

\* gp_Vec2d(a, b)
Vec(a, b) == <<a, b, 0, 0>>
\* gp_Vec2d(s cos t, -s sin t)
TanVec(s, t) == IF s = 0 THEN <<0, 0, 0, 0>> ELSE IF t = 0 THEN <<s, 0, 0, 0>> ELSE <<0, 0, s, t>>
\* v.Angle(w) - off
AngleMinus(v, w, off) == Res("angle", 0, <<v, w>>, off, <<>>)

-----------------------------------------------------------------------------
(* Point and tangent queries (source lines 55-88). *)

arc_first(x) == ArcPt(x[1], x[2], x[3], x[4])

arc_last(x) == ArcPt(x[1], x[2], x[3], x[4] + x[5])

\* val is None: x[:2]; else the point at angle x[3] + val * x[4]
arc_point(x, val) ==
    IF IsNone(val) THEN Pt(x[1], x[2])
    ELSE ArcPt(x[1], x[2], x[3], x[4] + Get(val) * x[5])

\* x[:2] + val * x[2:]   (val is not None: see distance_cost)
line_point(x, val) == Pt(x[1] + Get(val) * x[3], x[2] + Get(val) * x[4])

arc_first_tangent(x) == TanVec(sign(x[5]), x[4])

arc_last_tangent(x) == TanVec(sign(x[5]), x[4] + x[5])

\* gp_Vec2d(*(x[2:] - x[:2])) of a segment
LineVec(x) == Vec(x[3] - x[1], x[4] - x[2])

-----------------------------------------------------------------------------
(* The residual functions (source lines 91-199).  x, x1, x2 are DOF        *)
(* vectors, t, t1, t2 geometry tags, val the constraint's value: None, an  *)
(* optional number, or a sequence of optional numbers.                     *)

\* norm(x - val), val a vector as long as x
fixed_cost(x, t, val) ==
    SqrtMinus(SumSeq([i \in 1..Len(x) |-> (x[i] - Get(val[i])) * (x[i] - Get(val[i]))]), 0)

coincident_cost(x1, t1, x2, t2, val) ==
    IF t1 = "LINE" /\ t2 = "LINE" THEN NormDiff(Pt(x1[3], x1[4]), Pt(x2[1], x2[2]), 0)
    ELSE IF t1 = "LINE" /\ t2 = "CIRCLE" THEN NormDiff(Pt(x1[3], x1[4]), arc_first(x2), 0)
    ELSE IF t1 = "CIRCLE" /\ t2 = "LINE" THEN NormDiff(arc_last(x1), Pt(x2[1], x2[2]), 0)
    ELSE IF t1 = "CIRCLE" /\ t2 = "CIRCLE" THEN NormDiff(arc_last(x1), arc_first(x2), 0)
    ELSE invalid_args

\* v2.Angle(v1) - val
angle_cost(x1, t1, x2, t2, val) ==
    IF t1 = "LINE" /\ t2 = "LINE" THEN AngleMinus(LineVec(x2), LineVec(x1), Get(val))
    ELSE IF t1 = "LINE" /\ t2 = "CIRCLE"
         THEN AngleMinus(arc_first_tangent(x2), LineVec(x1), Get(val))
    ELSE IF t1 = "CIRCLE" /\ t2 = "LINE"
         THEN AngleMinus(LineVec(x2), arc_last_tangent(x1), Get(val))
    ELSE IF t1 = "CIRCLE" /\ t2 = "CIRCLE"
         THEN AngleMinus(arc_first_tangent(x2), arc_last_tangent(x1), Get(val))
    ELSE invalid_args

length_cost(x, t, val) ==
    IF t = "LINE"
    THEN SqrtMinus((x[3] - x[1]) * (x[3] - x[1]) + (x[4] - x[2]) * (x[4] - x[2]), Get(val))
    ELSE IF t = "CIRCLE" THEN NumRes(Abs(x[3] * (x[5] - x[4])) - Get(val))
    ELSE invalid_args

\* val = (val1, val2, d); line_point multiplies by its parameter, which
\* Python refuses for None
distance_cost(x1, t1, x2, t2, val) ==
    LET val1 == val[1]
        val2 == val[2]
        d == Get(val[3])
    IN  IF t1 = "LINE" /\ t2 = "LINE"
        THEN IF IsNone(val1) \/ IsNone(val2) THEN TypeError
             ELSE NormDiff(line_point(x1, val1), line_point(x2, val2), d)
        ELSE IF t1 = "LINE" /\ t2 = "CIRCLE"
        THEN IF IsNone(val1) THEN TypeError
             ELSE NormDiff(line_point(x1, val1), arc_point(x2, val2), d)
        ELSE IF t1 = "CIRCLE" /\ t2 = "LINE"
        THEN IF IsNone(val2) THEN TypeError
             ELSE NormDiff(arc_point(x1, val1), line_point(x2, val2), d)
        ELSE IF t1 = "CIRCLE" /\ t2 = "CIRCLE"
        THEN NormDiff(arc_point(x1, val1), arc_point(x2, val2), d)
        ELSE invalid_args

radius_cost(x, t, val) ==
    IF t = "CIRCLE" THEN NumRes(x[3] - Get(val)) ELSE invalid_args

\* gp_Vec2d(*(x[2:] - x[:2])).Angle(gp_Vec2d(*val))
orientation_cost(x, t, val) ==
    IF t = "LINE" THEN AngleMinus(LineVec(x), Vec(Get(val[1]), Get(val[2])), 0)
    ELSE invalid_args

arc_angle_cost(x, t, val) ==
    IF t = "CIRCLE" THEN NumRes(Abs(x[5] - x[4]) - Get(val)) ELSE invalid_args

\* costs[kind](*args, val): args is the sequence of (DOF, tag) slots the
\* caller built, one slot for e1 and one more when e2 is given; a residual
\* function called with the wrong number of slots is a TypeError
costs(kind, args, val) ==
    IF Len(args) # ConstraintInvariants(kind).arity THEN TypeError
    ELSE CASE kind = "Fixed"       -> fixed_cost(args[1].x, args[1].t, val)
           [] kind = "Coincident"  -> coincident_cost(args[1].x, args[1].t, args[2].x, args[2].t, val)
           [] kind = "Angle"       -> angle_cost(args[1].x, args[1].t, args[2].x, args[2].t, val)
           [] kind = "Length"      -> length_cost(args[1].x, args[1].t, val)
           [] kind = "Distance"    -> distance_cost(args[1].x, args[1].t, args[2].x, args[2].t, val)
           [] kind = "Radius"      -> radius_cost(args[1].x, args[1].t, val)
           [] kind = "Orientation" -> orientation_cost(args[1].x, args[1].t, val)
           [] kind = "ArcAngle"    -> arc_angle_cost(args[1].x, args[1].t, val)

-----------------------------------------------------------------------------
(***************************************************************************)
(* SketchConstraintSolver.                                                 *)
(*                                                                         *)
(* A constraint ((e1, e2), kind, val) is the record [e1, e2, kind, val]    *)
(* with e1 a 0-based entity index and e2 an optional one.                  *)
(*                                                                         *)
(* Inside f and grad a component of the flat vector is a pair <<a, b>>     *)
(* standing for a + b * DIFF_EPS: the optimizer's points have b = 0 and    *)
(* "+= DIFF_EPS" adds 1 to b.  The objective is the multiset of the        *)
(* residuals whose squares f sums, and an entry of the gradient buffer is  *)
(* the multiset of the finite-difference terms added into it, a term       *)
(* [r |-> tmp, r1 |-> tmp1] standing for 2 * tmp * (tmp1 - tmp) / DIFF_EPS;*)
(* the empty multiset is 0.                                                *)
(***************************************************************************)

\* self.ixs = [0] + list(accumulate(len(e) for e in self.entities))
\* a variant of MakeIxs that takes every entity for a segment of 4 numbers
MakeIxs_fixedLength(es) == [i \in 1..(Len(es) + 1) |-> 4 * (i - 1)]

MakeIxs(es) == [i \in 1..(Len(es) + 1) |-> SumSeq([j \in 1..(i - 1) |-> Len(es[j])])]

\* array(list(chain.from_iterable(self.entities))).ravel()
RECURSIVE Flatten(_)
Flatten(es) == IF es = <<>> THEN <<>> ELSE es[1] \o Flatten(Tail(es))

\* a point of the integer grid as a float vector, and back
Lift(p) == [i \in 1..Len(p) |-> <<p[i], 0>>]
Base(xs) == [i \in 1..Len(xs) |-> xs[i][1]]
OnGrid(xs) == \A i \in 1..Len(xs) : xs[i][2] = 0

\* v[ixs[e] : ixs[e + 1]]
Slice(v, e) == SubSeq(v, ixs[e + 1] + 1, ixs[e + 2])

\* cost(*args, val) on float arguments: exact on the grid, the application
\* itself off it; the tags alone decide whether the call raises
cost(kind, args, val) ==
    LET base == [s \in 1..Len(args) |-> [x |-> Base(args[s].x), t |-> args[s].t]]
        r == costs(kind, base, val)
    IN  IF Raised(r) \/ \A s \in 1..Len(args) : OnGrid(args[s].x) THEN r
        ELSE Res("pert", 0, <<>>, 0, <<[kind |-> kind, args |-> args, val |-> val]>>)

\* "build arguments for the specific constraint" (lines 268-270, 289-293)
BuildArgs(x, c) ==
    <<[x |-> Slice(x, c.e1), t |-> geoms[c.e1 + 1]]>>
    \o (IF IsNone(c.e2) THEN <<>>
        ELSE <<[x |-> Slice(x, Get(c.e2)), t |-> geoms[Get(c.e2) + 1]]>>)

\* the loop of f over constraints cs[i..]; [exc, rv]
RECURSIVE fLoop(_, _, _)
fLoop(cs, x, i) ==
    IF i > Len(cs) THEN [exc |-> None, rv |-> EmptyBag]
    ELSE LET r == cost(cs[i].kind, BuildArgs(x, cs[i]), cs[i].val)
         IN  IF Raised(r) THEN [exc |-> Some(r.fn), rv |-> EmptyBag]
             ELSE LET rest == fLoop(cs, x, i + 1)
                  IN  IF rest.exc # None THEN rest
                      ELSE [exc |-> None, rv |-> SetToBag({r}) (+) rest.rv]

\* f(x): the residuals whose squares are summed, or the exception raised
f(x) == fLoop(constraints, x, 1)

\* args[s][j] += DIFF_EPS
Perturbed(args, s, j) == [args EXCEPT ![s].x[j + 1] = <<@[1], @[2] + 1>>]

\* a variant of Restored that leaves the perturbed component as it is
Restored_skipped(args, s, e, j, x) == args

\* args[s][j] = x1[j], x1 = x[ixs[e] : ixs[e + 1]] a view of x
Restored(args, s, e, j, x) == [args EXCEPT ![s].x[j + 1] = x[ixs[e + 1] + j + 1]]

\* args as iteration j of "for j, k in enumerate(range(ixs[e], ixs[e + 1]))"
\* over slot s finds them, args0 being args when the loop begins: every
\* earlier iteration has perturbed and then restored its component
RECURSIVE LoopArgs(_, _, _, _, _)
LoopArgs(args0, s, e, j, x) ==
    IF j = 0 THEN args0
    ELSE Restored(Perturbed(LoopArgs(args0, s, e, j - 1, x), s, j - 1), s, e, j - 1, x)

\* what that loop adds to each rv[k]: for k = ixs[e] + j,
\* 2 * tmp * (tmp1 - tmp) / DIFF_EPS with tmp1 = cost(*args, val) after
\* args[s][j] += DIFF_EPS
LoopTerms(n, args0, s, e, c, tmp, x) ==
    [k \in 1..n |->
        IF ixs[e + 1] < k /\ k <= ixs[e + 2]
        THEN LET j == k - 1 - ixs[e + 1]
                 tmp1 == cost(c.kind, Perturbed(LoopArgs(args0, s, e, j, x), s, j), c.val)
             IN  SetToBag({[r |-> tmp, r1 |-> tmp1]})
        ELSE EmptyBag]

\* the loop of grad over constraints cs[i..]; [exc, x, rv]
RECURSIVE gradLoop(_, _, _, _)
gradLoop(cs, x, rv, i) ==
    IF i > Len(cs) THEN [exc |-> None, x |-> x, rv |-> rv]
    ELSE LET c == cs[i]
             args == BuildArgs(x, c)      \* the slices, copied
             tmp == cost(c.kind, args, c.val)
         IN  IF Raised(tmp) THEN [exc |-> Some(tmp.fn), x |-> x, rv |-> rv]
             ELSE LET n == Len(rv)
                      t1 == LoopTerms(n, args, 1, c.e1, c, tmp, x)
                      args1 == LoopArgs(args, 1, c.e1, ixs[c.e1 + 2] - ixs[c.e1 + 1], x)
                      t2 == IF IsNone(c.e2) THEN [k \in 1..n |-> EmptyBag]
                            ELSE LoopTerms(n, args1, 2, Get(c.e2), c, tmp, x)
                  IN  gradLoop(cs, x, [k \in 1..n |-> rv[k] (+) t1[k] (+) t2[k]], i + 1)

\* a variant of GradOver that accumulates onto the buffer as it finds it
GradOver_noClear(cs, x, rv) == gradLoop(cs, x, rv, 1)

\* grad over the constraint list cs: rv[:] = 0, then the loop
GradOver(cs, x, rv) == gradLoop(cs, x, [k \in 1..Len(rv) |-> EmptyBag], 1)

\* grad(x, rv): x and the buffer as the call leaves them, and the exception
\* raised if any
grad(x, rv) == GradOver(constraints, x, rv)

\* Bound values: -inf, +inf and finite ones
NegInf == [inf |-> -1, v |-> 0]
PosInf == [inf |-> 1, v |-> 0]
Fin(v) == [inf |-> 0, v |-> v]
\* b <= v for a bound b and an integer v
BoundLeq(b, v) == b.inf = -1 \/ (b.inf = 0 /\ b.v <= v)
\* v <= b
LeqBound(v, b) == b.inf = 1 \/ (b.inf = 0 /\ v <= b.v)

\* a variant of LowerBounds that bounds the component before the radius
LowerBounds_offByOne(bs, i) ==
    [k \in 1..Len(bs) |->
        IF \E e \in 1..Len(geoms) : geoms[e] = "CIRCLE" /\ k = ixs[e] + 2
        THEN Fin(0) ELSE bs[k]]

\* the loop "for i, g in enumerate(geoms)" of _cost, from i on
RECURSIVE LowerBounds(_, _)
LowerBounds(bs, i) ==
    IF i >= Len(geoms) THEN bs
    ELSE LowerBounds(IF geoms[i + 1] = "CIRCLE"
                     THEN [bs EXCEPT ![ixs[i + 1] + 2 + 1] = Fin(0)]
                     ELSE bs, i + 1)

\* a variant of _cost that bounds nothing
_cost_unbounded ==
    [lb |-> [k \in 1..ixs[Len(ixs)] |-> NegInf],
     ub |-> [k \in 1..ixs[Len(ixs)] |-> PosInf]]

\* _cost(): the bound vectors lb, ub (f and grad are the operators above)
_cost ==
    [lb |-> LowerBounds([k \in 1..ixs[Len(ixs)] |-> NegInf], 0),
     ub |-> [k \in 1..ixs[Len(ixs)] |-> PosInf]]

\* [x[i1:i2] for i1, i2 in zip(ixs, ixs[1:])]
Slices(v) == [i \in 1..(Len(ixs) - 1) |-> SubSeq(v, ixs[i] + 1, ixs[i + 1])]

-----------------------------------------------------------------------------
(***************************************************************************)
(* The external optimizer (nlopt), as far as solve relies on it: started   *)
(* on x0 with the bounds, it calls func at points of its choice within     *)
(* the bounds, and ends with a point it evaluated and a status code.       *)
(***************************************************************************)

\* the projection of the point p into the box [l, u]
Clamp(p, l, u) ==
    [k \in 1..Len(p) |-> IF ~BoundLeq(l[k], p[k]) THEN l[k].v
                         ELSE IF ~LeqBound(p[k], u[k]) THEN u[k].v
                         ELSE p[k]]

InBounds(p, l, u) == \A k \in 1..Len(p) : BoundLeq(l[k], p[k]) /\ LeqBound(p[k], u[k])

\* the points the optimizer may evaluate: the start and its translates by
\* (d, ..., d), projected into the box
OptPoints(p0, l, u) ==
    {Clamp([k \in 1..Len(p0) |-> p0[k] + d], l, u) : d \in 0..MaxStep}

\* opt.last_optimize_result()
StatusCodes == {"success", "tolerance-reached", "failure"}

\* what an entry of the optimizer's gradient buffer holds before the call:
\* a value no call of grad produces
JunkBag == SetToBag({[r |-> NumRes(1), r1 |-> NumRes(1)]})

-----------------------------------------------------------------------------
(* The solvers the model constructs. *)

EntityPool ==
    {[t |-> "LINE", x |-> <<0, 0, 1, 0>>]}
    \cup {[t |-> "CIRCLE", x |-> <<0, 0, -1, 0, 1>>]}

Constraint(e1, e2, kind, val) == [e1 |-> e1, e2 |-> e2, kind |-> kind, val |-> val]

\* the constraints a solver of n entities may hold, in a fixed order: a
\* Radius constraint on any entity (invalid on a LINE), a Coincident
\* constraint from any entity to the next one, and a Length constraint on
\* the first entity
ConstraintPool(n) ==
    [i \in 1..(2 * n + 1) |->
        IF i <= n THEN Constraint(i - 1, None, "Radius", Some(1))
        ELSE IF i <= 2 * n
             THEN Constraint(i - n - 1, Some((i - n) % n), "Coincident", None)
             ELSE Constraint(0, None, "Length", Some(1))]

SeqsUpTo(S, n) == UNION {[1..m -> S] : m \in 0..n}

\* the constraint lists of at most m constraints over n entities: the
\* constraints may repeat, and are listed in the order of the pool
ConstraintLists(n, m) ==
    {[i \in 1..Len(ix) |-> ConstraintPool(n)[ix[i]]] :
        ix \in {q \in SeqsUpTo(1..(2 * n + 1), m) :
                  \A i \in 1..(Len(q) - 1) : q[i] <= q[i + 1]}}

\* SketchConstraintSolver.__init__, and the state before the first solve()
Init ==
    /\ \E es \in SeqsUpTo(EntityPool, MaxEnt) \ {<<>>} :
         /\ entities = [i \in 1..Len(es) |-> es[i].x]
         /\ geoms = [i \in 1..Len(es) |-> es[i].t]
         /\ constraints \in ConstraintLists(Len(es), MaxCons)
         /\ ne = Len(es)
         /\ ixs = MakeIxs([i \in 1..Len(es) |-> es[i].x])
    /\ nc = Len(constraints)
    /\ pc = "idle"
    /\ x0 = <<>> /\ lb = <<>> /\ ub = <<>>
    /\ xv = [arg |-> <<>>, after |-> <<>>]
    /\ gv = <<>>
    /\ fval = None
    /\ nstarts = 0 /\ nevals = 0
    /\ result = None /\ failure = None
    /\ call = None /\ ret = None

\* solve(), lines 323-344: build x0 and the bounds, configure the optimizer
\* and start it on x0
solve_begin ==
    /\ pc \in {"idle", "returned", "raised"}
    /\ x0' = Flatten(entities)
    /\ lb' = _cost.lb
    /\ ub' = _cost.ub
    /\ nstarts' = 1
    /\ nevals' = 0
    /\ pc' = "running"
    /\ xv' = [arg |-> <<>>, after |-> <<>>]
    /\ gv' = <<>>
    /\ fval' = None
    /\ result' = None /\ failure' = None
    /\ UNCHANGED <<solverFields, call, ret>>

\* func(x, g), lines 326-331, called by the optimizer at a point p with a
\* gradient buffer that is empty or holds anything; an exception of f or
\* grad ends the optimizer run and leaves solve()
func ==
    /\ pc = "running"
    /\ nevals < MaxEvals
    /\ \E p \in OptPoints(x0, lb, ub), size \in BOOLEAN :
         LET buf == IF size THEN [k \in 1..Len(p) |-> JunkBag] ELSE <<>>
             gr == IF size THEN grad(Lift(p), buf)
                   ELSE [exc |-> None, x |-> Lift(p), rv |-> buf]
             fr == IF gr.exc # None THEN [exc |-> gr.exc, rv |-> EmptyBag] ELSE f(gr.x)
         IN  /\ xv' = [arg |-> p, after |-> gr.x]
             /\ gv' = gr.rv
             /\ IF fr.exc # None
                THEN /\ pc' = "raised"
                     /\ failure' = fr.exc
                     /\ fval' = None
                     /\ nevals' = nevals
                ELSE /\ pc' = "running"
                     /\ failure' = None
                     /\ fval' = Some(fr.rv)
                     /\ nevals' = nevals + 1
    /\ UNCHANGED <<solverFields, x0, lb, ub, nstarts, result, call, ret>>

\* a variant of solve_return that also stores the solution in the solver
solve_return_writeback ==
    /\ pc = "running"
    /\ nevals >= 1
    /\ \E status \in StatusCodes :
         result' = Some([slices |-> Slices(xv.arg),
                         status |-> [entities |-> Slices(xv.arg),
                                     cost |-> Get(fval),
                                     iters |-> nevals,
                                     status |-> status]])
    /\ entities' = Slices(xv.arg)
    /\ pc' = "returned"
    /\ UNCHANGED <<constraints, geoms, ne, nc, ixs, x0, lb, ub, xv, gv, fval,
                   nstarts, nevals, failure, call, ret>>

\* solve(), lines 344-354: the optimizer ends, and solve returns the slices
\* of the final point and the status record
solve_return ==
    /\ pc = "running"
    /\ nevals >= 1
    /\ \E status \in StatusCodes :
         result' = Some([slices |-> Slices(xv.arg),
                         status |-> [entities |-> entities,
                                     cost |-> Get(fval),
                                     iters |-> nevals,
                                     status |-> status]])
    /\ pc' = "returned"
    /\ UNCHANGED <<solverFields, x0, lb, ub, xv, gv, fval, nstarts, nevals,
                   failure, call, ret>>

Next == solve_begin \/ func \/ solve_return

Spec == Init /\ [][Next]_vars

-----------------------------------------------------------------------------
(***************************************************************************)
(* Direct calls of the residual functions: every kind on every tag         *)
(* combination, DOF vectors over Num, values of the kind's shape.          *)
(***************************************************************************)

\* a LINE has 4 DOF, a CIRCLE 5; a primitive of another kind is given 4
DOFs(t) == IF t = "CIRCLE" THEN [1..5 -> Num] ELSE [1..4 -> Num]

ArgSlots == UNION {{[x |-> v, t |-> t] : v \in DOFs(t)} : t \in Geoms}

OptNum == {None} \cup {Some(v) : v \in Num}

\* the values a constraint of this kind carries
Vals(kind, args) ==
    CASE kind = "Fixed"       -> {[i \in 1..Len(args[1].x) |-> Some(v)] : v \in Num}
      [] kind = "Coincident"  -> {None}
      [] kind = "Distance"    -> {<<a, b, Some(d)>> : a \in OptNum, b \in OptNum, d \in Num}
      [] kind = "Orientation" -> {<<Some(a), Some(b)>> : a \in Num, b \in Num}
      [] OTHER                -> {Some(v) : v \in Num}

InitCost ==
    /\ \E kind \in ConstraintKind :
         \E args \in [1..ConstraintInvariants(kind).arity -> ArgSlots] :
           \E val \in Vals(kind, args) :
             call = [kind |-> kind, args |-> args, val |-> val]
    /\ ret = None
    /\ entities = <<>> /\ constraints = <<>> /\ geoms = <<>>
    /\ ne = 0 /\ nc = 0
    /\ ixs = MakeIxs(<<>>)
    /\ pc = "idle"
    /\ x0 = <<>> /\ lb = <<>> /\ ub = <<>>
    /\ xv = [arg |-> <<>>, after |-> <<>>]
    /\ gv = <<>>
    /\ fval = None
    /\ nstarts = 0 /\ nevals = 0
    /\ result = None /\ failure = None

\* the call returns or raises; nothing but ret changes
Returns(kind, r) ==
    /\ call.kind = kind
    /\ ret = None
    /\ ret' = Some(r)
    /\ UNCHANGED <<solverFields, solveVars, call>>

call_fixed_cost ==
    Returns("Fixed", fixed_cost(call.args[1].x, call.args[1].t, call.val))

call_coincident_cost ==
    Returns("Coincident", coincident_cost(call.args[1].x, call.args[1].t,
                                          call.args[2].x, call.args[2].t, call.val))

call_angle_cost ==
    Returns("Angle", angle_cost(call.args[1].x, call.args[1].t,
                                call.args[2].x, call.args[2].t, call.val))

call_length_cost ==
    Returns("Length", length_cost(call.args[1].x, call.args[1].t, call.val))

call_distance_cost ==
    Returns("Distance", distance_cost(call.args[1].x, call.args[1].t,
                                      call.args[2].x, call.args[2].t, call.val))

call_radius_cost ==
    Returns("Radius", radius_cost(call.args[1].x, call.args[1].t, call.val))

call_orientation_cost ==
    Returns("Orientation", orientation_cost(call.args[1].x, call.args[1].t, call.val))

call_arc_angle_cost ==
    Returns("ArcAngle", arc_angle_cost(call.args[1].x, call.args[1].t, call.val))

NextCost ==
    \/ call_fixed_cost
    \/ call_coincident_cost
    \/ call_angle_cost
    \/ call_length_cost
    \/ call_distance_cost
    \/ call_radius_cost
    \/ call_orientation_cost
    \/ call_arc_angle_cost

SpecCost == InitCost /\ [][NextCost]_vars

-----------------------------------------------------------------------------
(* Properties of the residual functions, under SpecCost. *)

\* the tags of the call's slots
CallTags == {call.args[i].t : i \in 1..Len(call.args)}
\* a parameter of Distance is usable on its primitive: a LINE needs a number
ParamsUsable ==
    call.kind = "Distance" =>
        \A i \in 1..2 : call.args[i].t = "LINE" => ~IsNone(call.val[i])

\* C1: for each of the eight kinds and every tag (or pair of tags) outside
\* the kind's allowed-type set, the residual function raises the
\* invalid-argument failure instead of returning a number, and leaves its
\* arguments and all other state unchanged.
C1_InvalidTagsRaise ==
    [][(ret = None /\ ret' # None
          /\ ~(CallTags \subseteq ConstraintInvariants(call.kind).types))
        => (/\ Get(ret').fn = "ValueError"
            /\ call' = call
            /\ UNCHANGED <<solverFields, solveVars>>)]_vars

\* point-at as C2 states it: p1 + t * (p2 - p1) on a LINE; on a CIRCLE the
\* point at angle a0 + t * da, the arc's start point when t is unset
C2_PointAt(x, t, val) ==
    IF t = "LINE"
    THEN Pt(x[1] + Get(val) * (x[3] - x[1]), x[2] + Get(val) * (x[4] - x[2]))
    ELSE IF IsNone(val) THEN arc_first(x)
    ELSE ArcPt(x[1], x[2], x[3], x[4] + Get(val) * x[5])

\* the point-at query distance_cost uses
PointAt(x, t, val) == IF t = "LINE" THEN line_point(x, val) ELSE arc_point(x, val)

\* C2: point-at on a LINE is p1 + t*(p2 - p1); on a CIRCLE with an unset
\* parameter it is the arc's start point, the same as point-at with
\* parameter 0 and as the arc's first point; the Distance residual is the
\* Euclidean distance between the two points minus d.
C2_DistancePointAt ==
    (ret # None /\ call.kind = "Distance" /\ CallTags \subseteq {"LINE", "CIRCLE"}
       /\ ParamsUsable)
    => /\ \A i \in 1..2 :
            /\ PointAt(call.args[i].x, call.args[i].t, call.val[i])
                 = C2_PointAt(call.args[i].x, call.args[i].t, call.val[i])
            /\ (call.args[i].t = "CIRCLE" /\ IsNone(call.val[i]))
                 => /\ arc_point(call.args[i].x, None) = arc_point(call.args[i].x, Some(0))
                    /\ arc_point(call.args[i].x, None) = arc_first(call.args[i].x)
       /\ Get(ret) = NormDiff(C2_PointAt(call.args[1].x, call.args[1].t, call.val[1]),
                              C2_PointAt(call.args[2].x, call.args[2].t, call.val[2]),
                              Get(call.val[3]))

\* C3: on a CIRCLE (cx, cy, r, a0, da) the Length residual is r*|da| - value,
\* whatever a0 is; on a LINE it is the distance between the endpoints minus
\* value.
C3_Length ==
    (ret # None /\ call.kind = "Length")
    => LET x == call.args[1].x
           value == Get(call.val)
       IN  /\ call.args[1].t = "CIRCLE"
                => /\ Get(ret) = NumRes(x[3] * Abs(x[5]) - value)
                   /\ \A a0 \in Num :
                        length_cost([x EXCEPT ![4] = a0], "CIRCLE", call.val) = Get(ret)
           /\ call.args[1].t = "LINE"
                => Get(ret) = NormDiff(Pt(x[1], x[2]), Pt(x[3], x[4]), value)

\* C4: on a CIRCLE (cx, cy, r, a0, da) the ArcAngle residual is |da| - value,
\* whatever a0 is.
C4_ArcAngle ==
    (ret # None /\ call.kind = "ArcAngle" /\ call.args[1].t = "CIRCLE")
    => LET x == call.args[1].x
           value == Get(call.val)
       IN  /\ Get(ret) = NumRes(Abs(x[5]) - value)
           /\ \A a0 \in Num :
                arc_angle_cost([x EXCEPT ![4] = a0], "CIRCLE", call.val) = Get(ret)

-----------------------------------------------------------------------------
(* Properties of the solver, under Spec. *)

\* the length of the flat vector
N == ixs[Len(ixs)]
\* the 1-based positions of entity i (1-based) in the flat vector
Positions(i) == (ixs[i] + 1)..ixs[i + 1]
\* the 0-based entity indices the constraint list cs refers to
Referenced(cs) ==
    {cs[i].e1 : i \in 1..Len(cs)}
    \cup {Get(cs[i].e2) : i \in {j \in 1..Len(cs) : ~IsNone(cs[j].e2)}}
\* func has returned: the state holds its point, its value and its gradient
Evaluated == pc = "running" /\ fval # None

\* C5: the bound vectors have the flat vector's length, every upper bound is
\* +infinity, and the lower bound is 0 exactly at offset[i] + 2 of the
\* entities tagged CIRCLE and -infinity everywhere else, including every
\* component of every LINE.
C5_Bounds ==
    pc # "idle" =>
        /\ Len(lb) = Len(Flatten(entities))
        /\ Len(ub) = Len(Flatten(entities))
        /\ \A k \in 1..Len(ub) : ub[k] = PosInf
        /\ \A k \in 1..Len(lb) :
             IF \E i \in 1..Len(entities) : geoms[i] = "CIRCLE" /\ k = ixs[i] + 2 + 1
             THEN lb[k] = Fin(0)
             ELSE lb[k] = NegInf
        /\ \A i \in 1..Len(entities) :
             geoms[i] = "LINE" => \A k \in Positions(i) : lb[k] = NegInf

C5_Witness ==
    /\ pc = "running"
    /\ \E i, j \in 1..Len(entities) : geoms[i] = "CIRCLE" /\ geoms[j] = "LINE" /\ i < j

\* C6: the index map has one offset per entity plus a sentinel, starts at 0,
\* grows by each entity's length and ends at the flat vector's length;
\* slicing the initial flat vector by it gives back the entity list; solve
\* returns one slice per entity, as long as the entity.
C6_IndexMap ==
    /\ Len(ixs) = Len(entities) + 1
    /\ ixs[1] = 0
    /\ \A i \in 1..Len(entities) : ixs[i + 1] - ixs[i] = Len(entities[i])
    /\ ixs[Len(ixs)] = Len(Flatten(entities))
    /\ Slices(Flatten(entities)) = entities
    /\ pc # "idle" => x0 = Flatten(entities)
    /\ pc = "returned" =>
         /\ Len(Get(result).slices) = Len(entities)
         /\ \A i \in 1..Len(entities) : Len(Get(result).slices[i]) = Len(entities[i])

C6_Witness ==
    /\ pc = "returned"
    /\ Len(entities) > 1
    /\ Len(entities[1]) # Len(entities[2])

\* the positions that lie in the slice of no referenced entity
Unreferenced ==
    {k \in 1..N : \A e \in Referenced(constraints) : k \notin Positions(e + 1)}

\* C7: for a component k in the slice of no entity a constraint refers to,
\* f has the same value at x and at x with only component k changed, and
\* grad leaves exactly 0 in position k whatever the buffer held.
C7_Unconstrained ==
    Evaluated =>
        \A k \in Unreferenced :
            /\ \A d \in {-1, 1} :
                 LET y == [Lift(xv.arg) EXCEPT ![k] = <<@[1] + d, 0>>]
                 IN  f(y).exc = None /\ f(y).rv = Get(fval)
            /\ gv # <<>> => gv[k] = EmptyBag

C7_Witness ==
    /\ Evaluated
    /\ gv # <<>>
    /\ constraints # <<>>
    /\ Unreferenced # {}

\* C8: after solve returns, the radius component of every returned CIRCLE
\* slice is >= 0, also when the initial radius is negative.
C8_RadiusNonNegative ==
    pc = "returned" =>
        \A i \in 1..Len(entities) :
            geoms[i] = "CIRCLE" => Get(result).slices[i][3] >= 0

C8_Witness ==
    /\ pc = "returned"
    /\ \E i \in 1..Len(entities) : geoms[i] = "CIRCLE" /\ entities[i][3] < 0

\* the entity (0-based) in slot s of constraint c
SlotEntity(c, s) == IF s = 1 THEN c.e1 ELSE Get(c.e2)
SlotsOf(c) == IF IsNone(c.e2) THEN {1} ELSE {1, 2}

\* the forward-difference term of constraint c for component k of the entity
\* in slot s: the residual at x, and the residual with only that component
\* of that slot raised by DIFF_EPS
TermAt(c, s, k, x) ==
    LET args == BuildArgs(x, c)
        j == k - 1 - ixs[SlotEntity(c, s) + 1]
    IN  [r |-> cost(c.kind, args, c.val),
         r1 |-> cost(c.kind, [args EXCEPT ![s].x[j + 1] = <<@[1], @[2] + 1>>], c.val)]

RECURSIVE BagSumSeq(_)
BagSumSeq(bs) == IF bs = <<>> THEN EmptyBag ELSE bs[1] (+) BagSumSeq(Tail(bs))

\* the gradient as the sum, over the constraints and their slots, of the
\* forward-difference terms
ExpectedGrad(cs, x) ==
    [k \in 1..Len(x) |->
        BagSumSeq([i \in 1..Len(cs) |->
            BagSumSeq([s \in 1..2 |->
                IF s \in SlotsOf(cs[i]) /\ k \in Positions(SlotEntity(cs[i], s) + 1)
                THEN SetToBag({TermAt(cs[i], s, k, x)})
                ELSE EmptyBag])])]

Permute(cs, p) == [i \in 1..Len(cs) |-> cs[p[i]]]

\* C9: grad leaves x as it found it; the arguments are back to the slices
\* of x after every step of the perturbation loops, so each term is the
\* forward difference in one component only; the contributions of the
\* constraints add up per component, whatever the order of the constraints.
C9_Gradient ==
    (Evaluated /\ gv # <<>>) =>
        LET x == Lift(xv.arg)
            cs == constraints
        IN  /\ xv.after = x
            /\ \A i \in 1..Len(cs) : \A s \in SlotsOf(cs[i]) :
                 \A j \in 0..Len(entities[SlotEntity(cs[i], s) + 1]) :
                    LoopArgs(BuildArgs(x, cs[i]), s, SlotEntity(cs[i], s), j, x)
                        = BuildArgs(x, cs[i])
            /\ gv = ExpectedGrad(cs, x)
            /\ \A p \in Permutations(1..Len(cs)) :
                 GradOver(Permute(cs, p), x, gv).rv = gv
            /\ gv = [k \in 1..Len(x) |->
                        BagSumSeq([i \in 1..Len(cs) |-> GradOver(<<cs[i]>>, x, gv).rv[k]])]

C9_Witness ==
    /\ Evaluated
    /\ gv # <<>>
    /\ \E i, j \in 1..Len(constraints) :
         /\ i < j
         /\ constraints[i] # constraints[j]
         /\ Referenced(<<constraints[i]>>) \cap Referenced(<<constraints[j]>>) # {}

\* C10: solve starts the optimizer once per call, on the concatenation of
\* the stored entities; no step changes the solver's entities, constraints,
\* tags or index map, so a later call starts from the same vector; solve
\* ends either by returning the slices with a record holding the cost, the
\* number of evaluations and the status code, whatever the code is, or by
\* the ValueError of a constraint applied to invalid tags.
C10_Solve ==
    [][/\ UNCHANGED solverFields
       /\ pc = "running" => nstarts' = nstarts
       /\ (pc # "running" /\ pc' = "running") =>
            /\ nstarts' = 1
            /\ x0' = Flatten(entities)
            /\ pc # "idle" => x0' = x0
       /\ pc' \in {"idle", "running", "returned", "raised"}
       /\ pc' = "returned" =>
            /\ pc \in {"running", "returned"}
            /\ failure' = None
            /\ result' # None
            /\ Get(result').slices = Slices(xv'.arg)
            /\ Get(result').status.entities = entities
            /\ Get(result').status.cost = Get(fval')
            /\ Get(result').status.iters = nevals'
            /\ Get(result').status.status \in StatusCodes
       /\ pc' = "raised" =>
            /\ result' = None
            /\ failure' = Some("ValueError")
            /\ \E i \in 1..Len(constraints) :
                 LET c == constraints[i]
                 IN  \/ geoms[c.e1 + 1] \notin ConstraintInvariants(c.kind).types
                     \/ /\ ~IsNone(c.e2)
                        /\ geoms[Get(c.e2) + 1] \notin ConstraintInvariants(c.kind).types
      ]_vars

C10_Witness ==
    /\ pc = "returned"
    /\ Get(result).status.status = "failure"
    /\ Get(result).slices # entities

=============================================================================
